---- MODULE Spec2Model ----
(***************************************************************************)
(* The two handlers exported by app.js, each run against an opaque         *)
(* middleware chain.                                                       *)
(*                                                                         *)
(*   "direct" : exports.handler of app.js lines 98-184.  expressRes.send   *)
(*              writes straight through the platform channel               *)
(*              (resp.statusCode, resp.setHeader, resp.send).              *)
(*   "async"  : exports.handler of app.js lines 291-400.  expressRes       *)
(*              records into responseData; the handler awaits a promise    *)
(*              that only the completion callback resolves, then copies    *)
(*              responseData onto resp and returns the body.               *)
(*                                                                         *)
(* The chain (the express app with its routes) is the environment: it may  *)
(* call status/set/json/send/sendFile on expressRes, fire the completion   *)
(* callback with or without an error, throw while it runs synchronously,   *)
(* and go on working after its synchronous part has returned.              *)
(***************************************************************************)
EXTENDS Integers, Sequences, FiniteSets, TLC

VARIABLES
    mode,          \* which exports.handler is deployed: "direct" or "async"
    req,           \* the platform request: null, or an object with its
                   \* queries and url properties
    expressReq,    \* the Synthetic Request, once built: its query mapping
    resp,          \* the platform response object: [statusCode, headers]
    expressRes,    \* the adapter's own fields: [statusCode, headers, body]
    responseData,  \* async handler's capture record: [statusCode, headers, body]
    pc,            \* the handler's position; "escaped" when an exception
                   \* left the handler (or its promise was rejected)
    phase,         \* the chain's position: "idle", "sync", "async"
    resolved,      \* the completion promise has been resolved
    caught,        \* the value thrown, on its way to the catch block
    returned,      \* value the handler returned: None until it returns
    channel,       \* all the handler gave the platform, in order: the writes
                   \* on resp and the value it returned
    trace,         \* every operation the chain performed, in order
    commitAt       \* Len(trace) when the handler returned

vars == <<mode, req, expressReq, resp, expressRes, responseData, pc, phase, resolved,
          caught, returned, channel, trace, commitAt>>

-----------------------------------------------------------------------------
(* Bounds and input sets *)

MaxOps == 3

StatusArgs == {201, 503}
SetArgs == {<<"Content-Type", "text/plain">>, <<"Content-Type", "application/json">>,
            <<"X-Tag", "a">>, <<"X-Tag", "b">>}
HeaderKeys == {"Content-Type", "X-Tag"}
ErrMessages == {"boom"}
ThrowMessages == {"oops"}
FilePaths == {<<"index", "html">>, <<"notes", "txt">>, <<"gone", "json">>}
ReadableFiles ==
    {<<"index", "html">>, <<"notes", "txt">>, <<"style", "css">>, <<"main", "js">>,
     <<"data", "json">>, <<"logo", "png">>, <<"photo", "jpg">>, <<"anim", "gif">>}

-----------------------------------------------------------------------------
(* JavaScript values *)

None == <<>>
Some(v) == <<v>>

Str(s) == [kind |-> "string", a |-> s, b |-> ""]
Obj(k, v) == [kind |-> "object", a |-> k, b |-> v]
Buf(p) == [kind |-> "buffer", a |-> p[1], b |-> p[2]]
UndefinedValue == [kind |-> "undefined", a |-> "", b |-> ""]

(* what a throw statement can throw: an Error object, or null *)
ErrorValue(msg) == [kind |-> "error", a |-> msg, b |-> ""]
NullValue == [kind |-> "null", a |-> "", b |-> ""]

(* error.message: reading it off null raises a TypeError *)
HasMessage(error) == error.kind # "null"
MessageOf(error) == error.a

ThrownValues == {ErrorValue(msg) : msg \in ThrowMessages} \cup {NullValue}

JsonPayloads == {Obj("ok", "1")}
EndPayloads == {UndefinedValue, Str("bye")}
SendPayloads == {Str("hello"), Obj("ok", "1")}

JSONStringify(v) ==
    CASE v.kind = "string" -> Str("\"" \o v.a \o "\"")
      [] v.kind = "object" -> Str("{\"" \o v.a \o "\":\"" \o v.b \o "\"}")
      [] v.kind = "buffer" -> Str("{\"type\":\"Buffer\",\"data\":\"" \o v.a \o "." \o v.b \o "\"}")
      [] OTHER -> UndefinedValue

ErrorBody(msg) == JSONStringify(Obj("error", msg))

(* A JavaScript object used as a header map: keys keep insertion order and  *)
(* an assignment to an existing key replaces the value in place.            *)
HasKey(h, k) == \E i \in 1..Len(h) : h[i][1] = k

Lookup(h, k) ==
    IF HasKey(h, k)
    THEN Some((h[CHOOSE i \in 1..Len(h) : h[i][1] = k])[2])
    ELSE None

SetHeaderKeepFirst(h, k, v) ==
    IF HasKey(h, k) THEN h ELSE Append(h, <<k, v>>)

SetHeader(h, k, v) ==
    IF HasKey(h, k)
    THEN [i \in 1..Len(h) |-> IF h[i][1] = k THEN <<k, v>> ELSE h[i]]
    ELSE Append(h, <<k, v>>)

(* The platform request.  A url is absent (undefined) or a string; http     *)
(* says whether the string starts with 'http', valid whether new URL()      *)
(* accepts it once it has a protocol, pairs are the key/value pairs of its  *)
(* query string in order.                                                   *)
AbsentUrl == [kind |-> "undefined", http |-> FALSE, valid |-> FALSE, pairs |-> <<>>]
Url(http, valid, pairs) == [kind |-> "string", http |-> http, valid |-> valid, pairs |-> pairs]

NullReq == [kind |-> "null", queries |-> None, url |-> AbsentUrl]
Req(queries, url) == [kind |-> "object", queries |-> queries, url |-> url]

QueryPairs == <<<<"code", "A1">>, <<"page", "2">>, <<"code", "B2">>>>
PlainReq == Req(None, Url(FALSE, TRUE, QueryPairs))

Urls == {AbsentUrl, Url(TRUE, FALSE, QueryPairs), Url(FALSE, TRUE, QueryPairs)}
Queries == {None, Some(<<<<"page", "7">>>>)}
Requests == {Req(q, u) : q \in Queries, u \in Urls}

RECURSIVE SearchParams(_, _)
(* urlObj.searchParams.forEach((value, key) => { params[key] = value }) *)
SearchParams(params, pairs) ==
    IF pairs = <<>>
    THEN params
    ELSE SearchParams(SetHeader(params, pairs[1][1], pairs[1][2]), Tail(pairs))

(* Lines 274-288.  url.startsWith of an absent url and new URL() of a       *)
(* malformed one throw inside the try block; the catch returns {}.          *)
parseQueryParams(url) ==
    IF url.kind # "string"
    THEN <<>>
    ELSE LET urlWithProtocol == IF url.http THEN url ELSE [url EXCEPT !.http = TRUE]
         IN  IF urlWithProtocol.valid
             THEN SearchParams(<<>>, urlWithProtocol.pairs)
             ELSE <<>>

QueryOfParsed(r) == parseQueryParams(r.url)

(* Line 299: query: req.queries || parseQueryParams(req.url) *)
QueryOf(r) ==
    IF r.queries # None THEN r.queries[1] ELSE parseQueryParams(r.url)

(* path.extname and the lookup table of sendFile *)
ExtName(p) == IF Len(p) > 1 THEN "." \o p[Len(p)] ELSE ""

ContentTypeOfJpg(ext) ==
    CASE ext = ".html" -> "text/html"
      [] ext = ".css" -> "text/css"
      [] ext = ".js" -> "text/javascript"
      [] ext = ".json" -> "application/json"
      [] ext = ".png" -> "image/png"
      [] ext = ".jpg" -> "image/jpg"
      [] ext = ".gif" -> "image/gif"
      [] OTHER -> "text/plain"

ContentTypeOf(ext) ==
    CASE ext = ".html" -> "text/html"
      [] ext = ".css" -> "text/css"
      [] ext = ".js" -> "text/javascript"
      [] ext = ".json" -> "application/json"
      [] ext = ".png" -> "image/png"
      [] ext = ".jpg" -> "image/jpeg"
      [] ext = ".gif" -> "image/gif"
      [] OTHER -> "text/plain"

FreshRecord == [statusCode |-> 200, headers |-> <<>>, body |-> Str("")]

-----------------------------------------------------------------------------
(* expressRes of the async handler.  s = [res, data]: the adapter's own     *)
(* fields and responseData.                                                 *)

AsyncStatusClearsBody(s, code) ==
    [s EXCEPT !.res.statusCode = code, !.data.statusCode = code,
              !.res.body = Str(""), !.data.body = Str("")]

AsyncStatus(s, code) ==
    [s EXCEPT !.res.statusCode = code, !.data.statusCode = code]

AsyncSet(s, k, v) ==
    [s EXCEPT !.res.headers = SetHeader(@, k, v),
              !.data.headers = SetHeader(@, k, v)]

AsyncSend(s, body) ==
    [s EXCEPT !.res.body = body, !.data.body = body]

AsyncJson(s, body) ==
    LET t == AsyncSet(s, "Content-Type", "application/json")
        jsonBody == JSONStringify(body)
    IN  [t EXCEPT !.res.body = jsonBody, !.data.body = jsonBody]

AsyncSendFile(s, filePath) ==
    IF filePath \in ReadableFiles
    THEN AsyncSend(AsyncSet(s, "Content-Type", ContentTypeOf(ExtName(filePath))),
                   Buf(filePath))
    ELSE AsyncSend(AsyncStatus(s, 404), Str("File not found"))

AsyncCallbackAlwaysForces(data, hasErr, msg) ==
    [statusCode |-> 500,
     headers |-> SetHeader(data.headers, "Content-Type", "application/json"),
     body |-> ErrorBody(msg)]

(* the completion callback of the async handler, up to resolve() *)
AsyncCallback(data, hasErr, msg) ==
    IF hasErr
    THEN [statusCode |-> 500,
          headers |-> SetHeader(data.headers, "Content-Type", "application/json"),
          body |-> ErrorBody(msg)]
    ELSE data

-----------------------------------------------------------------------------
(* The platform response object.  p = [resp, channel].                      *)

RespAssignStatus(p, code) ==
    [resp |-> [p.resp EXCEPT !.statusCode = Some(code)],
     channel |-> Append(p.channel, <<"statusCode", code, "", UndefinedValue>>)]

RespSetHeader(p, k, v) ==
    [resp |-> [p.resp EXCEPT !.headers =
                  Some(SetHeader(IF @ = None THEN <<>> ELSE @[1], k, v))],
     channel |-> Append(p.channel, <<"setHeader", 0, k \o ": " \o v, UndefinedValue>>)]

RespAssignHeader(p, k, v) ==
    [resp |-> [p.resp EXCEPT !.headers =
                  Some(SetHeader(IF @ = None THEN <<>> ELSE @[1], k, v))],
     channel |-> Append(p.channel, <<"headers", 0, k \o ": " \o v, UndefinedValue>>)]

RespSend(p, body) ==
    [resp |-> p.resp,
     channel |-> Append(p.channel, <<"send", 0, "", body>>)]

(* the value the handler returns to the platform *)
HandlerReturn(p, value) ==
    [resp |-> p.resp,
     channel |-> Append(p.channel, <<"return", 0, "", value>>)]

RECURSIVE ForEachHeader(_, _, _)
(* Object.keys(h).forEach(...): direct chooses resp.setHeader (line 137)    *)
(* or the assignment to resp.headers[header] (line 379).                    *)
ForEachHeader(p, h, direct) ==
    IF h = <<>>
    THEN p
    ELSE ForEachHeader(IF direct
                       THEN RespSetHeader(p, h[1][1], h[1][2])
                       ELSE RespAssignHeader(p, h[1][1], h[1][2]),
                       Tail(h), direct)

-----------------------------------------------------------------------------
(* expressRes of the direct-write handler.  s = [res, resp, channel].       *)

DirectStatus(s, code) == [s EXCEPT !.res.statusCode = code]

DirectSet(s, k, v) == [s EXCEPT !.res.headers = SetHeader(@, k, v)]

DirectSendBodyFirst(s, body) ==
    LET p0 == [resp |-> s.resp, channel |-> s.channel]
        p1 == RespSend(p0, body)
        p2 == RespAssignStatus(p1, s.res.statusCode)
        p3 == ForEachHeader(p2, s.res.headers, TRUE)
    IN  [res |-> [s.res EXCEPT !.body = body],
         resp |-> p3.resp, channel |-> p3.channel]

DirectSend(s, body) ==
    LET p0 == [resp |-> s.resp, channel |-> s.channel]
        p1 == RespAssignStatus(p0, s.res.statusCode)
        p2 == ForEachHeader(p1, s.res.headers, TRUE)
        p3 == RespSend(p2, body)
    IN  [res |-> [s.res EXCEPT !.body = body],
         resp |-> p3.resp, channel |-> p3.channel]

DirectJson(s, body) ==
    LET t == DirectSet(s, "Content-Type", "application/json")
        u == [t EXCEPT !.res.body = JSONStringify(body)]
    IN  DirectSend(u, u.res.body)

DirectSendFile(s, filePath) ==
    IF filePath \in ReadableFiles
    THEN DirectSend(DirectSet(s, "Content-Type", ContentTypeOf(ExtName(filePath))),
                    Buf(filePath))
    ELSE DirectSend(DirectStatus(s, 404), Str("File not found"))

(* the error branch of the completion callback, and the catch block, of    *)
(* the direct-write handler                                                 *)
DirectErrorHead(p) ==
    RespSetHeader(RespAssignStatus(p, 500), "Content-Type", "application/json")

DirectError(p, msg) == RespSend(DirectErrorHead(p), ErrorBody(msg))

-----------------------------------------------------------------------------
(* Commit and catch of the async handler *)

AsyncCommit(p, data) ==
    LET p1 == RespAssignStatus(p, data.statusCode)
        p2 == [p1 EXCEPT !.resp.headers = IF @ = None THEN Some(<<>>) ELSE @]
    IN  ForEachHeader(p2, data.headers, FALSE)

AsyncCatch(p) ==
    LET p1 == IF p.resp.statusCode # None THEN RespAssignStatus(p, 500) ELSE p
    IN  IF p1.resp.headers # None
        THEN RespAssignHeader(p1, "Content-Type", "application/json")
        ELSE p1

-----------------------------------------------------------------------------
(* Initial states: the handler has just been entered. *)

(* The async handler reads resp.statusCode and resp.headers in its catch    *)
(* block, so it is started on every shape of platform response object; the  *)
(* direct-write handler never reads them.                                   *)
RespShapes ==
    {[statusCode |-> sc, headers |-> hd] :
        sc \in {None, Some(200)}, hd \in {None, Some(<<>>)}}

Init ==
    /\ mode \in {"direct", "async"}
    /\ req \in {NullReq, PlainReq}
    /\ expressReq = None
    /\ resp \in RespShapes
    /\ mode = "direct" => resp = [statusCode |-> None, headers |-> None]
    /\ expressRes = FreshRecord
    /\ responseData = FreshRecord
    /\ pc = "start"
    /\ phase = "idle"
    /\ resolved = FALSE
    /\ caught = None
    /\ returned = None
    /\ channel = <<>>
    /\ trace = <<>>
    /\ commitAt = 0

-----------------------------------------------------------------------------
(* Helpers of the actions *)

Entry(op, n, s, t, v) == [op |-> op, n |-> n, s |-> s, t |-> t, v |-> v]

(* the entry logged for call e, with the record as the call left it *)
Logged(e, rec) ==
    [op |-> e.op, n |-> e.n, s |-> e.s, t |-> e.t, v |-> e.v, after |-> rec]

NullReqMessage == "Cannot read properties of null (reading 'method')"

ChainRunning == phase \in {"sync", "async"} /\ Len(trace) < MaxOps

(* One adapter call made by the chain: e names the call, a(s) and d(s) are  *)
(* its effect in the async and in the direct-write handler.                 *)
AsyncState == [res |-> expressRes, data |-> responseData]
DirectState == [res |-> expressRes, resp |-> resp, channel |-> channel]

AdapterCall(e, asyncAfter, directAfter) ==
    /\ ChainRunning
    /\ IF mode = "async"
       THEN /\ expressRes' = asyncAfter.res
            /\ responseData' = asyncAfter.data
            /\ trace' = Append(trace, Logged(e, asyncAfter.data))
            /\ UNCHANGED <<resp, channel>>
       ELSE /\ expressRes' = directAfter.res
            /\ resp' = directAfter.resp
            /\ channel' = directAfter.channel
            /\ trace' = Append(trace, Logged(e, directAfter.res))
            /\ UNCHANGED responseData
    /\ UNCHANGED <<mode, req, expressReq, pc, phase, resolved, caught, returned, commitAt>>

-----------------------------------------------------------------------------
(* The handler's own steps *)

(* Lines 99-110 and 292-303: build expressReq; reading req.method of a      *)
(* null request throws inside the try block.                                *)
Translate ==
    /\ pc = "start"
    /\ IF req.kind = "object"
       THEN /\ expressReq' = Some([query |-> QueryOf(req)])
            /\ pc' = "app"
            /\ phase' = "sync"
            /\ UNCHANGED <<resp, channel, caught, returned>>
       ELSE IF mode = "async"
       THEN /\ UNCHANGED expressReq
            /\ pc' = "rejected"
            /\ caught' = Some(ErrorValue(NullReqMessage))
            /\ UNCHANGED <<resp, channel, phase, returned>>
       ELSE LET p == HandlerReturn(DirectError([resp |-> resp, channel |-> channel],
                                                NullReqMessage),
                                    UndefinedValue)
            IN  /\ resp' = p.resp
                /\ channel' = p.channel
                /\ pc' = "done"
                /\ returned' = Some(UndefinedValue)
                /\ UNCHANGED <<expressReq, phase, caught>>
    /\ UNCHANGED <<mode, req, expressRes, responseData, resolved, trace, commitAt>>

(* Lines 373-383: the continuation of the await, run once the promise is    *)
(* resolved and the synchronous part of the chain has returned.             *)
Commit ==
    /\ mode = "async"
    /\ pc = "await"
    /\ resolved
    /\ LET p == HandlerReturn(AsyncCommit([resp |-> resp, channel |-> channel],
                                          responseData),
                              responseData.body)
       IN  /\ resp' = p.resp
           /\ channel' = p.channel
    /\ returned' = Some(responseData.body)
    /\ pc' = "done"
    /\ commitAt' = Len(trace)
    /\ UNCHANGED <<mode, req, expressReq, expressRes, responseData, phase, resolved, caught, trace>>

(* Lines 385-399: the catch block of the async handler.  Line 398 reads     *)
(* error.message: when the value thrown is null that read throws out of    *)
(* the catch block and the promise the handler returned is rejected.        *)
Catch ==
    /\ mode = "async"
    /\ pc = "rejected"
    /\ LET p0 == AsyncCatch([resp |-> resp, channel |-> channel])
           p == IF HasMessage(caught[1])
                THEN HandlerReturn(p0, ErrorBody(MessageOf(caught[1])))
                ELSE p0
       IN  /\ resp' = p.resp
           /\ channel' = p.channel
    /\ IF HasMessage(caught[1])
       THEN /\ returned' = Some(ErrorBody(MessageOf(caught[1])))
            /\ pc' = "done"
            /\ commitAt' = Len(trace)
       ELSE /\ pc' = "escaped"
            /\ UNCHANGED <<returned, commitAt>>
    /\ UNCHANGED <<mode, req, expressReq, expressRes, responseData, phase, resolved, caught, trace>>

-----------------------------------------------------------------------------
(* The chain's steps *)

ChainStatus(code) ==
    AdapterCall(Entry("status", code, "", "", UndefinedValue),
                AsyncStatus(AsyncState, code), DirectStatus(DirectState, code))

ChainSet(k, v) ==
    AdapterCall(Entry("set", 0, k, v, UndefinedValue),
                AsyncSet(AsyncState, k, v), DirectSet(DirectState, k, v))

ChainJson(body) ==
    AdapterCall(Entry("json", 0, "", "", body),
                AsyncJson(AsyncState, body), DirectJson(DirectState, body))

ChainSend(body) ==
    AdapterCall(Entry("send", 0, "", "", body),
                AsyncSend(AsyncState, body), DirectSend(DirectState, body))

ChainSendFile(filePath) ==
    AdapterCall(Entry("sendFile", 0, filePath[1], filePath[2], UndefinedValue),
                AsyncSendFile(AsyncState, filePath),
                DirectSendFile(DirectState, filePath))

(* The completion callback: lines 361-370 (async), 167-174 (direct-write).  *)
(* resolve() of a promise that is already settled does nothing.             *)
ChainCallback(hasErr, msg) ==
    /\ ChainRunning
    /\ IF mode = "async"
       THEN /\ responseData' = AsyncCallback(responseData, hasErr, msg)
            /\ resolved' = (resolved \/ caught = None)
            /\ trace' = Append(trace, Logged(Entry("callback", IF hasErr THEN 1 ELSE 0,
                                                   IF hasErr THEN msg ELSE "", "",
                                                   UndefinedValue),
                                             responseData'))
            /\ UNCHANGED <<resp, channel>>
       ELSE LET p0 == [resp |-> resp, channel |-> channel]
                p == IF hasErr THEN DirectError(p0, msg) ELSE p0
            IN  /\ resp' = p.resp
                /\ channel' = p.channel
                /\ trace' = Append(trace, Logged(Entry("callback", IF hasErr THEN 1 ELSE 0,
                                                       IF hasErr THEN msg ELSE "", "",
                                                       UndefinedValue),
                                                 expressRes))
                /\ UNCHANGED <<responseData, resolved>>
    /\ UNCHANGED <<mode, req, expressReq, expressRes, pc, phase, caught, returned, commitAt>>

(* The chain throws while app(...) is still on the stack; e is the entry   *)
(* logged for it.  In the async handler the throw leaves the promise        *)
(* executor: it rejects the promise unless the callback has resolved it     *)
(* already.  In the direct-write handler the catch block of lines 178-183   *)
(* runs at once; its line 182 reads error.message before it calls           *)
(* resp.send, so a thrown null leaves the handler as a TypeError.           *)
Thrown(e, error) ==
    /\ ChainRunning
    /\ phase = "sync"
    /\ phase' = "async"
    /\ IF mode = "async"
       THEN /\ trace' = Append(trace, Logged(e, responseData))
            /\ IF resolved
               THEN pc' = "await" /\ UNCHANGED caught
               ELSE pc' = "rejected" /\ caught' = Some(error)
            /\ UNCHANGED <<resp, channel, returned, commitAt>>
       ELSE LET p0 == [resp |-> resp, channel |-> channel]
                p == IF HasMessage(error)
                     THEN HandlerReturn(DirectError(p0, MessageOf(error)), UndefinedValue)
                     ELSE DirectErrorHead(p0)
            IN  /\ trace' = Append(trace, Logged(e, expressRes))
                /\ resp' = p.resp
                /\ channel' = p.channel
                /\ IF HasMessage(error)
                   THEN /\ pc' = "done"
                        /\ returned' = Some(UndefinedValue)
                        /\ commitAt' = Len(trace')
                   ELSE /\ pc' = "escaped"
                        /\ UNCHANGED <<returned, commitAt>>
                /\ UNCHANGED caught
    /\ UNCHANGED <<mode, req, expressReq, expressRes, responseData, resolved>>

ChainThrow(error) ==
    Thrown(Entry("throw", IF HasMessage(error) THEN 0 ELSE 1, MessageOf(error), "",
                 UndefinedValue),
           error)

(* The chain calls res.end(payload).  Neither expressRes object has an end  *)
(* property (lines 112-164, 312-357), so the call is a call of undefined:   *)
(* a TypeError thrown in the chain, with no effect on the record.           *)
EndIsNotAFunction == "res.end is not a function"

ChainEnd(body) ==
    Thrown(Entry("end", 0, "", "", body), ErrorValue(EndIsNotAFunction))

(* app(...) returns to the handler; the chain may still have work pending   *)
(* in later turns of the event loop.  The direct-write handler then         *)
(* returns undefined (lines 176-177 only log).                              *)
ChainReturn ==
    /\ phase = "sync"
    /\ phase' = "async"
    /\ IF mode = "async"
       THEN pc' = "await" /\ UNCHANGED <<returned, commitAt, channel>>
       ELSE /\ pc' = "done"
            /\ returned' = Some(UndefinedValue)
            /\ commitAt' = Len(trace)
            /\ channel' = HandlerReturn([resp |-> resp, channel |-> channel],
                                        UndefinedValue).channel
    /\ UNCHANGED <<mode, req, expressReq, resp, expressRes, responseData, resolved, caught, trace>>

Next ==
    \/ Translate
    \/ Commit
    \/ Catch
    \/ \E code \in StatusArgs : ChainStatus(code)
    \/ \E kv \in SetArgs : ChainSet(kv[1], kv[2])
    \/ \E body \in JsonPayloads : ChainJson(body)
    \/ \E body \in SendPayloads : ChainSend(body)
    \/ \E filePath \in FilePaths : ChainSendFile(filePath)
    \/ \E hasErr \in BOOLEAN : \E msg \in ErrMessages : ChainCallback(hasErr, msg)
    \/ \E error \in ThrownValues : ChainThrow(error)
    \/ \E body \in EndPayloads : ChainEnd(body)
    \/ ChainReturn

Spec == Init /\ [][Next]_vars

(* The handler's own continuations are run by the event loop once they are  *)
(* enabled, and a synchronous call returns; the chain owes nothing else.    *)
FairSpec ==
    Spec /\ WF_vars(Translate) /\ WF_vars(Commit) /\ WF_vars(Catch)
         /\ WF_vars(ChainReturn)

-----------------------------------------------------------------------------
(* Several invocations of the async handler in flight in one process.  In   *)
(* ManySpec every variable of the handler holds one value per invocation    *)
(* (a function on Invocations) and the steps of the invocations interleave  *)
(* freely; the platform hands each invocation its own req and resp.         *)

Invocations == {1, 2}

RecordOfShared(i) == 1

(* Lines 306-315: responseData and expressRes are created by let / const    *)
(* inside the handler, so invocation i works on instance i.                 *)
RecordOf(i) == i

ManyInit ==
    /\ mode = "async"
    /\ req = [i \in Invocations |-> PlainReq]
    /\ expressReq = [i \in Invocations |-> None]
    /\ resp = [i \in Invocations |-> [statusCode |-> None, headers |-> None]]
    /\ expressRes = [i \in Invocations |-> FreshRecord]
    /\ responseData = [i \in Invocations |-> FreshRecord]
    /\ pc = [i \in Invocations |-> "start"]
    /\ phase = [i \in Invocations |-> "idle"]
    /\ resolved = [i \in Invocations |-> FALSE]
    /\ caught = [i \in Invocations |-> None]
    /\ returned = [i \in Invocations |-> None]
    /\ channel = [i \in Invocations |-> <<>>]
    /\ trace = [i \in Invocations |-> <<>>]
    /\ commitAt = [i \in Invocations |-> 0]

RECURSIVE OpsOf(_)
OpsOf(S) ==
    IF S = {} THEN 0
    ELSE LET i == CHOOSE j \in S : TRUE IN Len(trace[i]) + OpsOf(S \ {i})

ManyRunning(i) == phase[i] \in {"sync", "async"} /\ OpsOf(Invocations) < MaxOps

ManyState(i) ==
    [res |-> expressRes[RecordOf(i)], data |-> responseData[RecordOf(i)]]

(* Lines 292-315: the invocation builds its request and its fresh records. *)
ManyTranslate(i) ==
    /\ pc[i] = "start"
    /\ expressReq' = [expressReq EXCEPT ![i] = Some([query |-> QueryOf(req[i])])]
    /\ pc' = [pc EXCEPT ![i] = "app"]
    /\ phase' = [phase EXCEPT ![i] = "sync"]
    /\ expressRes' = [expressRes EXCEPT ![RecordOf(i)] = FreshRecord]
    /\ responseData' = [responseData EXCEPT ![RecordOf(i)] = FreshRecord]
    /\ UNCHANGED <<mode, req, resp, resolved, caught, returned, channel, trace, commitAt>>

(* The chain of invocation i calls a method of its expressRes. *)
ManyCall(i, e, after) ==
    /\ ManyRunning(i)
    /\ expressRes' = [expressRes EXCEPT ![RecordOf(i)] = after.res]
    /\ responseData' = [responseData EXCEPT ![RecordOf(i)] = after.data]
    /\ trace' = [trace EXCEPT ![i] = Append(@, e)]
    /\ UNCHANGED <<mode, req, expressReq, resp, pc, phase, resolved, caught, returned, channel, commitAt>>

ManyStatus(i, code) ==
    ManyCall(i, Entry("status", code, "", "", UndefinedValue),
             AsyncStatus(ManyState(i), code))

ManySet(i, k, v) ==
    ManyCall(i, Entry("set", 0, k, v, UndefinedValue), AsyncSet(ManyState(i), k, v))

ManyJson(i, body) ==
    ManyCall(i, Entry("json", 0, "", "", body), AsyncJson(ManyState(i), body))

ManySend(i, body) ==
    ManyCall(i, Entry("send", 0, "", "", body), AsyncSend(ManyState(i), body))

ManySendFile(i, filePath) ==
    ManyCall(i, Entry("sendFile", 0, filePath[1], filePath[2], UndefinedValue),
             AsyncSendFile(ManyState(i), filePath))

(* Lines 361-370: the completion callback of invocation i. *)
ManyCallback(i, hasErr, msg) ==
    /\ ManyRunning(i)
    /\ responseData' = [responseData EXCEPT ![RecordOf(i)] =
                            AsyncCallback(@, hasErr, msg)]
    /\ resolved' = [resolved EXCEPT ![i] = TRUE]
    /\ trace' = [trace EXCEPT ![i] =
                    Append(@, Entry("callback", IF hasErr THEN 1 ELSE 0,
                                    IF hasErr THEN msg ELSE "", "", UndefinedValue))]
    /\ UNCHANGED <<mode, req, expressReq, resp, expressRes, pc, phase, caught, returned, channel,
                   commitAt>>

(* app(...) of invocation i returns; the handler reaches its await. *)
ManyReturn(i) ==
    /\ phase[i] = "sync"
    /\ phase' = [phase EXCEPT ![i] = "async"]
    /\ pc' = [pc EXCEPT ![i] = "await"]
    /\ UNCHANGED <<mode, req, expressReq, resp, expressRes, responseData, resolved, caught, returned,
                   channel, trace, commitAt>>

(* Lines 373-383: invocation i commits what its responseData holds. *)
ManyCommit(i) ==
    /\ pc[i] = "await"
    /\ resolved[i]
    /\ LET data == responseData[RecordOf(i)]
           p == HandlerReturn(AsyncCommit([resp |-> resp[i], channel |-> channel[i]],
                                          data),
                              data.body)
       IN  /\ resp' = [resp EXCEPT ![i] = p.resp]
           /\ channel' = [channel EXCEPT ![i] = p.channel]
           /\ returned' = [returned EXCEPT ![i] = Some(data.body)]
    /\ pc' = [pc EXCEPT ![i] = "done"]
    /\ commitAt' = [commitAt EXCEPT ![i] = Len(trace[i])]
    /\ UNCHANGED <<mode, req, expressReq, expressRes, responseData, phase, resolved, caught, trace>>

ManyNext ==
    \E i \in Invocations :
        \/ ManyTranslate(i)
        \/ ManyCommit(i)
        \/ \E code \in StatusArgs : ManyStatus(i, code)
        \/ \E kv \in SetArgs : ManySet(i, kv[1], kv[2])
        \/ \E body \in JsonPayloads : ManyJson(i, body)
        \/ \E body \in SendPayloads : ManySend(i, body)
        \/ \E filePath \in FilePaths : ManySendFile(i, filePath)
        \/ \E hasErr \in BOOLEAN : \E msg \in ErrMessages : ManyCallback(i, hasErr, msg)
        \/ ManyReturn(i)

ManySpec == ManyInit /\ [][ManyNext]_vars

-----------------------------------------------------------------------------
(* sendFile on every kind of file: the chain of Spec, which may also pass   *)
(* sendFile any of the readable files, on a resp without properties.        *)

SendFileNext ==
    \/ Next
    \/ \E filePath \in ReadableFiles : ChainSendFile(filePath)

SendFileInit == Init /\ resp = [statusCode |-> None, headers |-> None]

SendFileSpec == SendFileInit /\ [][SendFileNext]_vars

-----------------------------------------------------------------------------
(* Request translation on every shape of request: the handler and chain of  *)
(* Spec, started on a request with or without pre-parsed queries and with   *)
(* an absent, a malformed or a well-formed url.                             *)

RequestInit ==
    /\ mode \in {"direct", "async"}
    /\ req \in Requests
    /\ expressReq = None
    /\ resp = [statusCode |-> None, headers |-> None]
    /\ expressRes = FreshRecord
    /\ responseData = FreshRecord
    /\ pc = "start"
    /\ phase = "idle"
    /\ resolved = FALSE
    /\ caught = None
    /\ returned = None
    /\ channel = <<>>
    /\ trace = <<>>
    /\ commitAt = 0

RequestSpec == RequestInit /\ [][Next]_vars

-----------------------------------------------------------------------------
(* Vocabulary of the properties *)

IsWrite(e) == e.op \in {"status", "set"}
IsTerminal(e) == e.op \in {"json", "send", "sendFile"}
IsCallback(e) == e.op = "callback"
IsErrCallback(e) == e.op = "callback" /\ e.n = 1
IsThrow(e) == e.op \in {"throw", "end"}
IsTrigger(e) == IsTerminal(e) \/ IsCallback(e) \/ IsThrow(e)

(* what the chain did before the handler returned *)
Prefix == SubSeq(trace, 1, commitAt)

TerminalsIn(t) == {i \in 1..Len(t) : IsTerminal(t[i])}

(* the async handler returned through lines 373-383, not through the catch *)
AsyncCommitted == mode = "async" /\ pc = "done" /\ caught = None

ChannelCount(kind) == Cardinality({i \in 1..Len(channel) : channel[i][1] = kind})

(* commits to the platform boundary: bodies returned by the async handler,  *)
(* resp.send calls of the direct-write handler                              *)
Commits == IF mode = "async" THEN ChannelCount("return") ELSE ChannelCount("send")

(* what the platform holds of the response *)
DeliveredHeaders == IF resp.headers = None THEN <<>> ELSE resp.headers[1]

Delivered(body) ==
    [statusCode |-> resp.statusCode, headers |-> DeliveredHeaders, body |-> body]

AsRecorded(rec) ==
    [statusCode |-> Some(rec.statusCode), headers |-> rec.headers, body |-> Some(rec.body)]

-----------------------------------------------------------------------------
(* the chain has not used up the operations the model grants it: when it   *)
(* stops, it stops of its own accord                                        *)
BudgetLeft == Len(trace) < MaxOps

(* C1: in the async handler every invocation commits the Response Record    *)
(* to the platform exactly once: eventually once, and from then on never a  *)
(* second time and never zero times.                                        *)
C1_CommittedExactlyOnce ==
    (mode = "async" /\ []BudgetLeft) => <>[](Commits = 1)

(* C2: if the chain never calls a terminal operation and never fires the    *)
(* completion callback, the invocation still resolves: the committed        *)
(* response carries the gateway-timeout status 504.                         *)
C2_TimeoutCommits ==
    (req.kind = "object" /\ [](BudgetLeft /\ \A i \in 1..Len(trace) : ~IsTrigger(trace[i])))
        => <>(Commits = 1 /\ resp.statusCode = Some(504))

(* C3: if the chain calls json, send or sendFile and never fires the        *)
(* completion callback (and does not throw), the async handler eventually   *)
(* returns, committing the Response Record as it stands.                    *)
C3_TerminalResolves ==
    (mode = "async"
       /\ [](BudgetLeft /\ \A i \in 1..Len(trace) :
                               ~IsCallback(trace[i]) /\ ~IsThrow(trace[i])))
        => []((TerminalsIn(trace) # {}) => <>AsyncCommitted)

(* position i of Prefix is a terminal operation, preceded by status/set     *)
(* calls only and followed by one error callback, then the commit           *)
C4_TerminalThenError(i) ==
    /\ Len(Prefix) = i + 1
    /\ IsTerminal(Prefix[i])
    /\ \A j \in 1..(i - 1) : IsWrite(Prefix[j])
    /\ IsErrCallback(Prefix[i + 1])

(* C4: first-wins latch.  When the first trigger of the invocation is a     *)
(* terminal operation and all the chain does afterwards, up to the commit,  *)
(* is fire the completion callback once with an error, the committed        *)
(* status, headers and body are those the terminal operation recorded.      *)
C4_FirstTriggerWins ==
    \A i \in 1..Len(Prefix) :
        (AsyncCommitted /\ C4_TerminalThenError(i))
            => Delivered(returned) = AsRecorded(Prefix[i].after)

(* position i of Prefix is an error callback, preceded by status/set calls  *)
(* only and followed by one terminal operation, then the commit             *)
C5_ErrorCallbackFirst(i) ==
    /\ Len(Prefix) = i + 1
    /\ IsErrCallback(Prefix[i])
    /\ \A j \in 1..(i - 1) : IsWrite(Prefix[j])
    /\ IsTerminal(Prefix[i + 1])

(* C5: when the completion callback fires with an error before any          *)
(* terminal operation was called, the committed response has status 500,    *)
(* Content-Type application/json and the body {"error": <message>}; the     *)
(* case taken here is a chain that fires the callback and then calls one    *)
(* terminal operation, the callback being the first of the two.             *)
C5_ErrorCallbackCommits500 ==
    \A i \in 1..Len(Prefix) :
        (AsyncCommitted /\ C5_ErrorCallbackFirst(i))
            => /\ resp.statusCode = Some(500)
               /\ Lookup(DeliveredHeaders, "Content-Type") = Some("application/json")
               /\ returned = Some(ErrorBody(Prefix[i].s))

-----------------------------------------------------------------------------
(* What a sequence t of chain operations asks for, read off the arguments   *)
(* of the calls.                                                            *)

PathOf(e) == <<e.s, e.t>>

(* the header value entry e writes under key k, if any: set(k, v), the      *)
(* Content-Type of json, the Content-Type sendFile infers for a file read   *)
WriteTo(e, k) ==
    CASE e.op = "set" /\ e.s = k -> Some(e.t)
      [] e.op = "json" /\ k = "Content-Type" -> Some("application/json")
      [] e.op = "sendFile" /\ k = "Content-Type" /\ PathOf(e) \in ReadableFiles
            -> Some(ContentTypeOf(ExtName(PathOf(e))))
      [] OTHER -> None

LastIn(S) == CHOOSE i \in S : \A j \in S : j <= i

ExpHeader(t, k) ==
    LET W == {i \in 1..Len(t) : WriteTo(t[i], k) # None}
    IN  IF W = {} THEN None ELSE WriteTo(t[LastIn(W)], k)

(* the status asked for last: status(code), or the 404 of a failed sendFile *)
StatusOf(e) ==
    CASE e.op = "status" -> Some(e.n)
      [] e.op = "sendFile" /\ PathOf(e) \notin ReadableFiles -> Some(404)
      [] OTHER -> None

ExpStatus(t) ==
    LET W == {i \in 1..Len(t) : StatusOf(t[i]) # None}
    IN  IF W = {} THEN Some(200) ELSE StatusOf(t[LastIn(W)])

(* the body a terminal operation gives *)
ExpBody(e) ==
    CASE e.op = "json" -> JSONStringify(e.v)
      [] e.op = "send" -> e.v
      [] e.op = "sendFile" ->
            IF PathOf(e) \in ReadableFiles THEN Buf(PathOf(e)) ELSE Str("File not found")
      [] OTHER -> Str("")

HeadersAsAsked(t) ==
    /\ \A k \in HeaderKeys : Lookup(DeliveredHeaders, k) = ExpHeader(t, k)
    /\ \A i \in 1..Len(DeliveredHeaders) : DeliveredHeaders[i][1] \in HeaderKeys

-----------------------------------------------------------------------------
(* the async handler committed after a chain that called no terminal        *)
(* operation and fired the callback without an error, never with one        *)
C6_NoOpCase ==
    /\ AsyncCommitted
    /\ \A i \in 1..Len(Prefix) : ~IsTerminal(Prefix[i]) /\ ~IsErrCallback(Prefix[i])

(* C6: when the completion callback fires without an error and the chain    *)
(* called no terminal operation (it only called status and set), the async  *)
(* handler commits what the Response Record holds: the status set last by   *)
(* status(), 200 if none was, every header recorded by set(), the initial   *)
(* empty body; no error status or error body is put in its place.           *)
C6_NoOpCompletion ==
    C6_NoOpCase
        => /\ resp.statusCode = ExpStatus(Prefix)
           /\ HeadersAsAsked(Prefix)
           /\ returned = Some(Str(""))

C6_Witness ==
    /\ C6_NoOpCase
    /\ \E i \in 1..Len(Prefix) : Prefix[i].op = "status"
    /\ \E i \in 1..Len(Prefix) : Prefix[i].op = "set"
    /\ resp.statusCode # Some(200)
    /\ DeliveredHeaders # <<>>

(* position i is the one terminal operation of the sequence: before it      *)
(* only status/set calls; after it, up to the commit, only the error-free    *)
(* callback that lets the async handler return                              *)
C7_AsyncCase(i) ==
    /\ AsyncCommitted
    /\ i \in 1..Len(Prefix)
    /\ IsTerminal(Prefix[i])
    /\ \A j \in 1..(i - 1) : IsWrite(Prefix[j])
    /\ \A j \in (i + 1)..Len(Prefix) :
          IsCallback(Prefix[j]) /\ ~IsErrCallback(Prefix[j])

C7_DirectCase(i) ==
    /\ mode = "direct"
    /\ i \in 1..Len(trace)
    /\ IsTerminal(trace[i])
    /\ \A j \in 1..Len(trace) : j # i => IsWrite(trace[j])

SentBodies == {channel[n][4] : n \in {m \in 1..Len(channel) : channel[m][1] = "send"}}

(* C7: for a sequence of status/set calls ending in exactly one terminal    *)
(* operation and followed by the commit, the platform holds, for every      *)
(* header key, the value written last, the status set last before the       *)
(* terminal operation's send, and the body the terminal operation gave;     *)
(* what the chain calls after the commit changes none of it.  In the async  *)
(* handler the commit is the return after the callback fired without an     *)
(* error; in the direct-write handler it is the terminal operation's send.  *)
C7_LastWriteCommitted ==
    \A i \in 1..Len(trace) :
        /\ C7_AsyncCase(i)
              => /\ resp.statusCode = ExpStatus(SubSeq(trace, 1, i))
                 /\ HeadersAsAsked(SubSeq(trace, 1, i))
                 /\ returned = Some(ExpBody(trace[i]))
        /\ C7_DirectCase(i)
              => /\ resp.statusCode = ExpStatus(SubSeq(trace, 1, i))
                 /\ HeadersAsAsked(SubSeq(trace, 1, i))
                 /\ ChannelCount("send") = 1
                 /\ SentBodies = {ExpBody(trace[i])}

C7_Witness ==
    \E i \in 1..Len(trace) :
        /\ C7_AsyncCase(i)
        /\ Len(trace) > commitAt
        /\ trace[Len(trace)].op = "status"
        /\ resp.statusCode # Some(trace[Len(trace)].n)

-----------------------------------------------------------------------------
(* C8: in the direct-write handler resp.send is invoked at most once per    *)
(* invocation, whatever terminal operations and error callbacks the chain   *)
(* issues.                                                                  *)
C8_SingleSend ==
    mode = "direct" => ChannelCount("send") <= 1

(* JSON serializations of an error object for a file that is not found      *)
StructuredNotFound ==
    {JSONStringify(Obj(k, m)) : k \in {"error", "message"},
                                m \in {"File not found", "Not found"}}

(* C9: sendFile of a path whose read fails leaves the Response Record with  *)
(* status 404 and a structured JSON error body.                             *)
C9_SendFileNotFound ==
    \A i \in 1..Len(trace) :
        (trace[i].op = "sendFile" /\ PathOf(trace[i]) \notin ReadableFiles)
            => /\ trace[i].after.statusCode = 404
               /\ trace[i].after.body \in StructuredNotFound

(* C10: an exception that reaches the catch block of the async handler is   *)
(* turned into a committed error response: resp.statusCode is 500 and the   *)
(* returned body is {"error": <message>}, whatever properties resp had.     *)
C10_ThrowCommits500 ==
    (mode = "async" /\ pc = "done" /\ caught # None)
        => /\ resp.statusCode = Some(500)
           /\ returned = Some(ErrorBody(MessageOf(caught[1])))

-----------------------------------------------------------------------------
(* C11: no exception escapes the adapter: whatever the chain does, a thrown *)
(* value that is not an Error object included, the handler neither throws   *)
(* nor returns a rejected promise.                                          *)
C11_NothingEscapes ==
    pc # "escaped"

(* what the calls logged in t make of a fresh Response Record *)
RECURSIVE Replay(_)
Replay(t) ==
    IF t = <<>>
    THEN [res |-> FreshRecord, data |-> FreshRecord]
    ELSE LET s == Replay(SubSeq(t, 1, Len(t) - 1))
             e == t[Len(t)]
         IN  CASE e.op = "status" -> AsyncStatus(s, e.n)
               [] e.op = "set" -> AsyncSet(s, e.s, e.t)
               [] e.op = "json" -> AsyncJson(s, e.v)
               [] e.op = "send" -> AsyncSend(s, e.v)
               [] e.op = "sendFile" -> AsyncSendFile(s, <<e.s, e.t>>)
               [] e.op = "callback" ->
                      [s EXCEPT !.data = AsyncCallback(@, e.n = 1, e.s)]

(* the platform writes and return value of a commit of record data *)
CommitOf(data) ==
    HandlerReturn(AsyncCommit([resp |-> [statusCode |-> None, headers |-> None],
                               channel |-> <<>>], data),
                  data.body)

(* C12: with several invocations in flight and their chains' steps          *)
(* interleaved, the Response Record of an invocation is what its own calls  *)
(* made of it, and the response it commits is what its own calls up to the  *)
(* commit made of it.                                                       *)
C12_InvocationsIsolated ==
    \A i \in Invocations :
        /\ pc[i] # "start" =>
              /\ expressRes[i] = Replay(trace[i]).res
              /\ responseData[i] = Replay(trace[i]).data
        /\ pc[i] = "done" =>
              LET p == CommitOf(Replay(SubSeq(trace[i], 1, commitAt[i])).data)
              IN  /\ resp[i] = p.resp
                  /\ channel[i] = p.channel
                  /\ returned[i] = Some(Replay(SubSeq(trace[i], 1, commitAt[i])).data.body)

C12_Witness ==
    /\ \A i \in Invocations : pc[i] \in {"app", "await"} /\ Len(trace[i]) >= 1
    /\ responseData[1] # FreshRecord
    /\ responseData[2] # FreshRecord
    /\ responseData[1] # responseData[2]

-----------------------------------------------------------------------------
(* writes through the platform response channel, and response values        *)
(* returned to the platform                                                 *)
ChannelWrites ==
    {n \in 1..Len(channel) : channel[n][1] \in {"statusCode", "setHeader", "headers", "send"}}

ReturnedValues ==
    {n \in 1..Len(channel) : channel[n][1] = "return" /\ channel[n][4] # UndefinedValue}

(* C13: an invocation uses one outbound convention: it never both writes    *)
(* through the platform response object (resp.statusCode, resp.setHeader,   *)
(* resp.headers, resp.send) and returns a response value.                   *)
C13_OneConvention ==
    ~(ChannelWrites # {} /\ ReturnedValues # {})

(* C14: send of a structured payload delegates to json (the body recorded   *)
(* is its JSON serialization and Content-Type is application/json); any     *)
(* other payload is recorded verbatim with Content-Type left as it was.     *)
C14_SendDelegatesToJson ==
    \A i \in 1..Len(trace) :
        trace[i].op = "send" =>
            LET before == IF i = 1 THEN FreshRecord ELSE trace[i - 1].after
                after == trace[i].after
            IN  IF trace[i].v.kind = "object"
                THEN /\ after.body = JSONStringify(trace[i].v)
                     /\ Lookup(after.headers, "Content-Type") = Some("application/json")
                ELSE /\ after.body = trace[i].v
                     /\ Lookup(after.headers, "Content-Type")
                            = Lookup(before.headers, "Content-Type")

(* C15: when the async handler commits a record whose Content-Type is JSON  *)
(* and whose body is empty, the body committed is a default structured      *)
(* success body: an empty payload never goes out with a JSON Content-Type.  *)
C15_DefaultSuccessBody ==
    (AsyncCommitted /\ Lookup(DeliveredHeaders, "Content-Type") = Some("application/json"))
        => returned # Some(Str(""))

-----------------------------------------------------------------------------
(* the content types by extension, and the type of every other extension *)
TypeTable ==
    {<<"html", "text/html">>, <<"css", "text/css">>, <<"js", "text/javascript">>,
     <<"json", "application/json">>, <<"png", "image/png">>, <<"jpg", "image/jpeg">>,
     <<"gif", "image/gif">>}

TypeFor(ext) ==
    IF \E r \in TypeTable : r[1] = ext
    THEN (CHOOSE r \in TypeTable : r[1] = ext)[2]
    ELSE "text/plain"

(* C16: sendFile of a readable file records the Content-Type the table      *)
(* gives for the file's extension (text/plain for any other extension) and  *)
(* the file's contents as body, and leaves the status as it was.            *)
C16_SendFileContentType ==
    \A i \in 1..Len(trace) :
        (trace[i].op = "sendFile" /\ PathOf(trace[i]) \in ReadableFiles) =>
            LET before == IF i = 1 THEN FreshRecord ELSE trace[i - 1].after
                after == trace[i].after
            IN  /\ Lookup(after.headers, "Content-Type") = Some(TypeFor(trace[i].t))
                /\ after.body = Buf(PathOf(trace[i]))
                /\ after.statusCode = before.statusCode

C16_Witness ==
    \E i, j \in 1..Len(trace) :
        /\ i > 1
        /\ trace[i - 1].op = "status"
        /\ trace[i].op = "sendFile" /\ trace[i].t = "jpg"
        /\ trace[j].op = "sendFile" /\ trace[j].t = "txt"

-----------------------------------------------------------------------------
(* the url of the request cannot be parsed *)
Unparsable(url) == url.kind # "string" \/ ~url.valid

(* C17: request translation does not raise on a request without pre-parsed  *)
(* queries whose url is absent or malformed: the Synthetic Request is built *)
(* with an empty query mapping and the chain is invoked; pre-parsed queries *)
(* become the query mapping verbatim.                                       *)
C17_QueryTranslation ==
    (pc # "start" /\ req.kind = "object") =>
        /\ phase # "idle"
        /\ expressReq # None
        /\ (req.queries = None /\ Unparsable(req.url)) => expressReq[1].query = <<>>
        /\ req.queries # None => expressReq[1].query = req.queries[1]

C17_Witness ==
    /\ req.kind = "object"
    /\ req.queries = None
    /\ req.url.kind = "string" /\ ~req.url.valid
    /\ expressReq = Some([query |-> <<>>])
    /\ Len(trace) >= 1

-----------------------------------------------------------------------------
(* the step is a call of status or set by the chain *)
WriteStep ==
    /\ Len(trace') = Len(trace) + 1
    /\ IsWrite(trace'[Len(trace')])

(* record rec after the call logged as e: status(code) changes the status   *)
(* only, set(key, value) the entry of that key only                         *)
FramedBy(e, rec, recAfter) ==
    IF e.op = "status"
    THEN recAfter = [rec EXCEPT !.statusCode = e.n]
    ELSE /\ recAfter.statusCode = rec.statusCode
         /\ recAfter.body = rec.body
         /\ \A k \in HeaderKeys :
                Lookup(recAfter.headers, k)
                    = IF k = e.s THEN Some(e.t) ELSE Lookup(rec.headers, k)

(* C18: status(code) changes the recorded status only and set(key, value)   *)
(* the entry of that key only (last write wins); neither writes to the      *)
(* platform response object, returns a response, resolves the promise or    *)
(* moves the handler.                                                       *)
C18_StatusSetFrame ==
    [][WriteStep =>
           /\ FramedBy(trace'[Len(trace')], expressRes, expressRes')
           /\ IF mode = "async"
              THEN FramedBy(trace'[Len(trace')], responseData, responseData')
              ELSE responseData' = responseData
           /\ UNCHANGED <<resp, channel, returned, pc, phase, resolved, caught, commitAt>>]_vars

C18_Witness ==
    /\ Len(trace) = 3
    /\ trace[1].op = "json"
    /\ trace[2].op = "status"
    /\ trace[3].op = "set" /\ trace[3].s = "Content-Type" /\ trace[3].t = "text/plain"
    /\ expressRes.body = JSONStringify(trace[1].v)
    /\ expressRes.statusCode = trace[2].n

-----------------------------------------------------------------------------
(* C19: the adapter has an end(payload) operation, which records a payload  *)
(* given to it as send(payload) would and raises nothing.                   *)
C19_EndRecordsPayload ==
    \A i \in 1..Len(trace) :
        (trace[i].op = "end" /\ trace[i].v # UndefinedValue)
            => /\ trace[i].after.body = trace[i].v
               /\ caught # Some(ErrorValue(EndIsNotAFunction))

-----------------------------------------------------------------------------
(* the platform writes of one send of record rec: the status, every header  *)
(* recorded, then the body                                                  *)
SendSegment(rec) ==
    <<<<"statusCode", rec.statusCode, "", UndefinedValue>>>>
        \o [k \in 1..Len(rec.headers) |->
               <<"setHeader", 0, rec.headers[k][1] \o ": " \o rec.headers[k][2],
                 UndefinedValue>>]
        \o <<<<"send", 0, "", rec.body>>>>

ErrorSegment(msg) ==
    SendSegment([statusCode |-> 500,
                 headers |-> <<<<"Content-Type", "application/json">>>>,
                 body |-> ErrorBody(msg)])

(* the platform writes the calls logged in t give rise to in the            *)
(* direct-write handler: a segment for each json, send and sendFile, the    *)
(* error response for an error callback or an exception, nothing for        *)
(* status and set                                                           *)
RECURSIVE Transmitted(_)
Transmitted(t) ==
    IF t = <<>>
    THEN <<>>
    ELSE LET e == t[Len(t)]
         IN  Transmitted(SubSeq(t, 1, Len(t) - 1)) \o
             (CASE IsTerminal(e) -> SendSegment(e.after)
                [] IsErrCallback(e) -> ErrorSegment(e.s)
                [] e.op = "throw" /\ e.n = 0 -> ErrorSegment(e.s)
                [] e.op = "throw" /\ e.n = 1 -> SubSeq(ErrorSegment(""), 1, 2)
                [] e.op = "end" -> ErrorSegment(EndIsNotAFunction)
                [] OTHER -> <<>>)

IsPlatformWrite(c) == c[1] # "return"

(* C20: in the direct-write handler every send, direct or through json or   *)
(* sendFile, assigns resp.statusCode, then calls resp.setHeader for every   *)
(* header recorded at that moment, then resp.send with the body; nothing    *)
(* else is written, so no status or header write follows the body write of  *)
(* a call and headers set after the last send are never transmitted.        *)
C20_DirectWriteOrder ==
    (mode = "direct" /\ req.kind = "object") =>
        /\ SelectSeq(channel, IsPlatformWrite) = Transmitted(trace)
        /\ \A n \in 1..Len(channel) :
               channel[n][1] = "send" =>
                   \E m \in 1..(n - 1) :
                       /\ channel[m][1] = "statusCode"
                       /\ \A j \in (m + 1)..(n - 1) : channel[j][1] = "setHeader"

C20_Witness ==
    /\ mode = "direct"
    /\ Len(trace) = 3
    /\ trace[1].op = "set" /\ trace[2].op = "send" /\ trace[3].op = "set"
    /\ Lookup(expressRes.headers, "X-Tag") = Some("b")
    /\ Lookup(DeliveredHeaders, "X-Tag") = Some("a")
    /\ ChannelCount("send") = 1

====
